---- MODULE Spec2Model ----
(***************************************************************************)
(* PricePal (src/src/index.ts): the per-user photo-capture state of        *)
(* ExampleMentraOSApp.  The state is the class's Maps keyed by userId; the *)
(* operations are the SDK callbacks onSession / onStop, the button-press   *)
(* handler, the setInterval callback, and the continuations of their       *)
(* awaited calls (camera.requestPhoto, audio.speak, generateContent,       *)
(* speakAnalysis).  Every action is one handler run from one suspension    *)
(* point to the next, on a single-threaded event loop.                     *)
(*                                                                         *)
(* Time is counted in timer periods (1000 ms, the setInterval period), so  *)
(* the 30000 ms fallback is 30.  Every stored timestamp is kept relative   *)
(* to the current instant: Date.now() is the origin (now), and AdvanceTime *)
(* makes every stored timestamp one period older.  The code only compares  *)
(* timestamps with Date.now(), so a timestamp older than every comparison  *)
(* can tell apart is kept at a floor (Past, Oldest).                       *)
(***************************************************************************)
EXTENDS Integers, Sequences, FiniteSets, TLC

Users == {"u1", "u2"}
\* the user of a run in which one pair of glasses connects
OneUser == {"u1"}

\* the AppSession objects the SDK hands to onSession, in this order
Handles == {1, 2}

\* bound of the model
MaxRequests == 2      \* camera.requestPhoto calls in a run

\* program constants, in timer periods
CoolDown == 30        \* currentTime + 30000
Period == 1           \* setInterval(..., 1000)

\* Date.now(), the origin of the relative timestamps
now == 0
\* floor of nextPhotoTime: every value below now passes currentTime > nextPhotoTime
Past == now - Period
\* floor of a fire time: the fallback of an older fire is in the past
Oldest == Past - CoolDown
Older(t, floor) == IF t - Period < floor THEN floor ELSE t - Period

VARIABLES
    photos,              \* Map userId -> StoredPhoto[]
    isStreamingPhotos,   \* Map userId -> boolean
    nextPhotoTime,       \* Map userId -> number
    sessions,            \* Map userId -> AppSession (handle)
    owner,               \* userId of each AppSession passed to onSession
    connected,           \* AppSessions the SDK has started and not stopped
    active,              \* the users whose glasses connect in this run
    tracing,             \* how much history the run keeps
    calls,               \* capture handlers suspended at an await
    analyses,            \* analyzePhotoWithGemini runs suspended at an await
    nextRequest,         \* next requestId the camera hands out
    lastFire,            \* history: userId -> the latest tick-triggered request
    hist,                \* history: userId -> button events since session start
    attempted            \* history: userId -> requestPhoto calls since session start

vars == <<photos, isStreamingPhotos, nextPhotoTime, sessions, owner,
          connected, active, tracing, calls, analyses, nextRequest, lastFire, hist,
          attempted>>

\* ---- JavaScript Map ----------------------------------------------------
MapHas(m, k) == k \in DOMAIN m
MapSet(m, k, v) == [x \in (DOMAIN m) \cup {k} |-> IF x = k THEN v ELSE m[x]]
MapDelete_Kept(m, k) == m
MapDelete(m, k) == [x \in (DOMAIN m) \ {k} |-> m[x]]
Empty == [x \in {} |-> 0]

\* this.nextPhotoTime.get(userId) ?? 0: the epoch, long before any Date.now()
NextPhotoTimeOf(u) == IF MapHas(nextPhotoTime, u) THEN nextPhotoTime[u] ELSE Past
\* truthiness of this.isStreamingPhotos.get(userId)
IsStreamingOf(u) == MapHas(isStreamingPhotos, u) /\ isStreamingPhotos[u]
\* this.photos.get(userId) || []
PhotosOf(u) == IF MapHas(photos, u) THEN photos[u] ELSE <<>>

Created == DOMAIN owner
Timers == DOMAIN owner       \* one setInterval per onSession, never cleared

\* ---- history bookkeeping -----------------------------------------------
\* The history variables are read by the properties only, never by the app.
\* How much of it a run keeps is fixed by tracing: "presses" keeps hist and
\* attempted, "fires" keeps the time of a fire after its fallback has stopped
\* standing, "captures" keeps the capture times of the photos, "retries"
\* keeps whether a fire follows a failed one, "nothing" keeps none of these.
\*
\* hist[u]: the button events handled for u since its session start, kept
\* while they are a prefix of Scenario and nothing else has acted on u
Scenario == <<"long", "long", "short">>
IsPrefix(s, t) == Len(s) <= Len(t) /\ \A i \in 1..Len(s) : s[i] = t[i]
Off == <<"off">>
Started == IF tracing = "presses" THEN <<>> ELSE Off
Record(h, e) == IF h # Off /\ IsPrefix(Append(h, e), Scenario) THEN Append(h, e) ELSE Off
\* attempted[u]: the requestPhoto calls issued for u since its session start
Counted(u) == IF tracing = "presses" THEN [attempted EXCEPT ![u] = @ + 1] ELSE attempted

\* lastFire[u]: u's latest tick-triggered request.  id: its requestId; at: the
\* time it was fired; standing: nothing but the clock has touched
\* nextPhotoTime[u] since the fire wrote its fallback; returned: requestPhoto
\* has returned its photo; early: it was fired, in the current
\* instant, before the fallback time (at + CoolDown) of the tick-triggered
\* request before it; retry: the tick-triggered request before it failed and
\* nothing but the clock has touched nextPhotoTime[u] between the two fires
Failed(u) ==
    /\ MapHas(lastFire, u)
    /\ ~lastFire[u].returned
    /\ lastFire[u].id \notin {c.id : c \in calls}
Fired(u, id) ==
    MapSet(lastFire, u,
           [id |-> id, at |-> now, standing |-> TRUE, returned |-> FALSE,
            early |-> MapHas(lastFire, u) /\ now < lastFire[u].at + CoolDown,
            retry |-> tracing = "retries" /\ Failed(u) /\ lastFire[u].standing])
Rewritten(u) ==
    IF MapHas(lastFire, u)
      THEN [lastFire EXCEPT ![u].standing = FALSE,
                            ![u].at = IF tracing = "fires" THEN @ ELSE Oldest]
      ELSE lastFire
Returned(c) ==
    IF MapHas(lastFire, c.user) /\ lastFire[c.user].id = c.id
      THEN [lastFire EXCEPT ![c.user].returned = TRUE] ELSE lastFire

Fresh ==
    /\ photos = Empty
    /\ isStreamingPhotos = Empty
    /\ nextPhotoTime = Empty
    /\ sessions = Empty
    /\ owner = Empty
    /\ connected = {}
    /\ calls = {}
    /\ analyses = {}
    /\ nextRequest = 1
    /\ lastFire = Empty
    /\ hist = [u \in Users |-> Off]
    /\ attempted = [u \in Users |-> 0]

\* one user
Init == Fresh /\ active = OneUser /\ tracing = "nothing"
InitPresses == Fresh /\ active = OneUser /\ tracing = "presses"
InitFires == Fresh /\ active = OneUser /\ tracing = "fires"
InitCaptures == Fresh /\ active = OneUser /\ tracing = "captures"
InitRetries == Fresh /\ active = OneUser /\ tracing = "retries"
\* every user
InitUsers == Fresh /\ active = Users /\ tracing = "nothing"

\* ---- onSession (lines 58-155): state initialisation ---------------------
InitialStreaming_Kept(u) == IsStreamingOf(u)
\* this.isStreamingPhotos.set(userId, false), whatever the entry was (66)
InitialStreaming(u) == FALSE

OnSession(u) ==
    /\ u \in active
    /\ Cardinality(Created) + 1 \in Handles
    /\ LET h == Cardinality(Created) + 1 IN
        /\ sessions' = MapSet(sessions, u, h)
        /\ isStreamingPhotos' = MapSet(isStreamingPhotos, u, InitialStreaming(u))
        /\ nextPhotoTime' = MapSet(nextPhotoTime, u, now)
        /\ owner' = MapSet(owner, h, u)
        /\ connected' = connected \cup {h}
    /\ lastFire' = Rewritten(u)
    /\ hist' = [hist EXCEPT ![u] = Started]
    /\ attempted' = [attempted EXCEPT ![u] = 0]
    /\ UNCHANGED <<photos, active, tracing, calls, analyses, nextRequest>>

\* ---- onStop (lines 157-163) ---------------------------------------------
StreamingOff_Skipped(u) == isStreamingPhotos
StreamingOff_Everyone(u) == [x \in DOMAIN MapSet(isStreamingPhotos, u, FALSE) |-> FALSE]
\* this.isStreamingPhotos.set(userId, false)
StreamingOff(u) == MapSet(isStreamingPhotos, u, FALSE)

OnStop(h) ==
    /\ h \in connected
    /\ LET u == owner[h] IN
        /\ isStreamingPhotos' = StreamingOff(u)
        /\ nextPhotoTime' = MapDelete(nextPhotoTime, u)
        /\ sessions' = MapDelete(sessions, u)
        /\ lastFire' = Rewritten(u)
        /\ hist' = [hist EXCEPT ![u] = Off]
    /\ connected' = connected \ {h}
    /\ UNCHANGED <<photos, owner, active, tracing, calls, analyses, nextRequest,
                   attempted>>

\* ---- button handler, pressType === 'long' (lines 76-81) -----------------
Toggled_On(u) == TRUE
Toggled_Off(u) == FALSE
\* !currentStreaming
Toggled(u) == ~IsStreamingOf(u)

Armed_Reset(u) == MapSet(nextPhotoTime, u, now)
\* nextPhotoTime after the branch: it returns without writing it (81)
Armed(u) == nextPhotoTime

LongPress(h) ==
    /\ h \in connected
    /\ LET u == owner[h] IN
        /\ isStreamingPhotos' = MapSet(isStreamingPhotos, u, Toggled(u))
        /\ nextPhotoTime' = Armed(u)
        /\ hist' = [hist EXCEPT ![u] = Record(hist[u], "long")]
    /\ UNCHANGED <<photos, sessions, owner, connected,
                   active, tracing, calls, analyses, nextRequest, lastFire, attempted>>

\* a handler suspended at await session.camera.requestPhoto()
NewCall(h, k) ==
    [id |-> nextRequest, user |-> owner[h], session |-> h, kind |-> k,
     pc |-> "requestPhoto", timestamp |-> 0]

\* ---- button handler, any other pressType (lines 82-110) -----------------
PressCaptures_WhenDue(h) == now > NextPhotoTimeOf(owner[h])
PressCaptures_Exclusive(h) == \A c \in calls : c.user # owner[h]
\* the else branch asks nothing more before it requests the photo
PressCaptures(h) == TRUE

ShortPress(h) ==
    /\ h \in connected
    /\ PressCaptures(h)
    /\ nextRequest <= MaxRequests
    /\ LET u == owner[h] IN
        /\ calls' = calls \cup {NewCall(h, "button")}
        /\ hist' = [hist EXCEPT ![u] = Record(hist[u], "short")]
        /\ attempted' = Counted(u)
    /\ nextRequest' = nextRequest + 1
    /\ UNCHANGED <<photos, isStreamingPhotos, nextPhotoTime, sessions,
                   owner, connected, active, tracing, analyses, lastFire>>

\* ---- setInterval callback (lines 114-154) -------------------------------
TickGuard_NotStrict(u) == IsStreamingOf(u) /\ now >= NextPhotoTimeOf(u)
TickGuard_StreamingOnly(u) == IsStreamingOf(u)
\* isStreaming && currentTime > nextPhotoTime
TickGuard(u) == IsStreamingOf(u) /\ now > NextPhotoTimeOf(u)

Fallback_None(t) == t
Fallback_Short(t) == t + Period
\* currentTime + 30000
Fallback(t) == t + CoolDown

Advanced_AfterTheCall(u) == nextPhotoTime
\* this.nextPhotoTime.set(userId, currentTime + 30000), before the call (123)
Advanced(u) == MapSet(nextPhotoTime, u, Fallback(now))

TickFire(h) ==
    /\ h \in Timers
    /\ TickGuard(owner[h])
    /\ nextRequest <= MaxRequests
    /\ LET u == owner[h] IN
        /\ nextPhotoTime' = Advanced(u)
        /\ calls' = calls \cup {NewCall(h, "tick")}
        /\ lastFire' = Fired(u, nextRequest)
        /\ hist' = [hist EXCEPT ![u] = Off]
        /\ attempted' = Counted(u)
    /\ nextRequest' = nextRequest + 1
    /\ UNCHANGED <<photos, isStreamingPhotos, sessions, owner, connected,
                   active, tracing, analyses>>

Waited_Cleared(u) == MapDelete(nextPhotoTime, u)
\* nextPhotoTime after a callback whose if is false: there is no else (119, 153)
Waited(u) == nextPhotoTime

TickIdle(h) ==
    /\ h \in Timers
    /\ ~TickGuard(owner[h])
    /\ nextPhotoTime' = Waited(owner[h])
    /\ UNCHANGED <<photos, isStreamingPhotos, sessions,
                   owner, connected, active, tracing, calls, analyses, nextRequest, lastFire,
                   hist, attempted>>

\* ---- continuations of the capture handlers ------------------------------
\* photo.timestamp, the capture time the camera puts on the photo it returns.
\* Capture times are kept as the rank of the capture among all captures (every
\* photo returned so far is either stored or held by a handler at the sound
\* step), and only by a run that traces captures.
Captures ==
    LET Stored[us \in SUBSET Users] ==
            IF us = {} THEN 0
            ELSE LET u == CHOOSE x \in us : TRUE
                 IN Len(PhotosOf(u)) + Stored[us \ {u}]
    IN Stored[Users] + Cardinality({c \in calls : c.pc = "speak"})
Timestamp == IF tracing = "captures" THEN Captures + 1 ELSE 0

\* await session.camera.requestPhoto() returns a photo (lines 89, 128)
RequestPhotoOk(c) ==
    /\ c \in calls /\ c.pc = "requestPhoto"
    /\ calls' = (calls \ {c}) \cup
                 {[c EXCEPT !.pc = "speak", !.timestamp = Timestamp]}
    /\ lastFire' = Returned(c)
    /\ UNCHANGED <<photos, isStreamingPhotos, nextPhotoTime, sessions, owner,
                   connected, active, tracing, analyses, nextRequest, hist, attempted>>

Caught_Reset(c) ==
    IF c.kind = "tick" THEN MapSet(nextPhotoTime, c.user, now) ELSE nextPhotoTime
\* nextPhotoTime after the catch blocks, which only log (lines 107-109, 150-152)
Caught(c) == nextPhotoTime

Registered_Dropped(c) == MapDelete(sessions, c.user)
\* this.sessions after the catch blocks, which only log
Registered(c) == sessions

Retried_AtOnce(c) == {[c EXCEPT !.id = 0]}
\* the requests the catch blocks issue: they only log
Retried(c) == {}

\* await session.camera.requestPhoto() throws: the catch logs (lines 107, 150)
RequestPhotoFail(c) ==
    /\ c \in calls /\ c.pc = "requestPhoto"
    /\ calls' = (calls \ {c}) \cup Retried(c)
    /\ nextPhotoTime' = Caught(c)
    /\ sessions' = Registered(c)
    /\ UNCHANGED <<photos, isStreamingPhotos, owner,
                   connected, active, tracing, analyses, nextRequest, lastFire, hist,
                   attempted>>

\* a photo as cachePhoto stores it (lines 172-180); geminiAnalysis is not set
StoredPhoto(c) ==
    [requestId |-> c.id, timestamp |-> c.timestamp, geminiAnalysis |-> "absent"]

Pushed_Alone(c) == <<StoredPhoto(c)>>
\* userPhotos.push(cachedPhoto) on this.photos.get(userId) || []
Pushed(c) == Append(PhotosOf(c.user), StoredPhoto(c))

Dispatched_None(c) == {}
\* this.analyzePhotoWithGemini(cachedPhoto, userId), not awaited (203): the
\* run holds the photo object it was given, here its place in the list
Dispatched(c) ==
    {[user |-> c.user, index |-> Len(PhotosOf(c.user)) + 1, pc |-> "generateContent"]}

\* cachePhoto (lines 168-204) up to the await in analyzePhotoWithGemini (253)
CachePhoto(c) ==
    /\ photos' = MapSet(photos, c.user, Pushed(c))
    /\ analyses' = analyses \cup Dispatched(c)

Ready_Skipped(c) == nextPhotoTime
Ready_Again(c) ==
    IF c.kind = "tick" THEN MapSet(nextPhotoTime, c.user, now + CoolDown)
                       ELSE nextPhotoTime
\* this.nextPhotoTime.set(userId, Date.now()), in the timer's callback only
Ready(c) ==
    IF c.kind = "tick" THEN MapSet(nextPhotoTime, c.user, now) ELSE nextPhotoTime

\* await session.audio.speak("Photo taken") returns or throws (the inner catch
\* logs), then the handler runs to its end (lines 98-106, 137-149)
ShutterSoundDone(c) ==
    /\ c \in calls /\ c.pc = "speak"
    /\ calls' = calls \ {c}
    /\ nextPhotoTime' = Ready(c)
    /\ lastFire' = IF c.kind = "tick" THEN Rewritten(c.user) ELSE lastFire
    /\ CachePhoto(c)
    /\ UNCHANGED <<isStreamingPhotos, sessions, owner, connected, active, tracing,
                   nextRequest, hist, attempted>>

\* ---- analyzePhotoWithGemini (lines 209-271) ------------------------------
SetAnalysis(a, v) ==
    photos' = [photos EXCEPT ![a.user][a.index].geminiAnalysis = v]

\* generateContent returned: the analysis is stored (260) and speakAnalysis
\* runs to its first await (299-397); without a session it returns at once
\* (386-390) and analyzePhotoWithGemini ends
AnalysisText_NotYet(a) == "absent"
\* response.text(), stored on the photo before speakAnalysis is called (255-260)
AnalysisText(a) == "analysis"

GenerateOk(a) ==
    /\ a \in analyses /\ a.pc = "generateContent"
    /\ SetAnalysis(a, AnalysisText(a))
    /\ analyses' = (analyses \ {a}) \cup
          (IF MapHas(sessions, a.user)
             THEN {[a EXCEPT !.pc = "speakAnalysis"]}
             ELSE {})
    /\ UNCHANGED <<isStreamingPhotos, nextPhotoTime, sessions, owner, connected,
                   active, tracing, calls, nextRequest, lastFire, hist, attempted>>

CaughtText_Unset(a) == "absent"
\* `Error analyzing photo: ${error}`, the text the catch stores (269)
CaughtText(a) == "error"

\* generateContent threw: the catch stores the error text (266-270)
GenerateFail(a) ==
    /\ a \in analyses /\ a.pc = "generateContent"
    /\ SetAnalysis(a, CaughtText(a))
    /\ analyses' = analyses \ {a}
    /\ UNCHANGED <<isStreamingPhotos, nextPhotoTime, sessions, owner, connected,
                   active, tracing, calls, nextRequest, lastFire, hist, attempted>>

\* ---- speakAnalysis (lines 299-494) ---------------------------------------
\* Its awaits (the ElevenLabs request, playAudio, the built-in speak) touch no
\* state of the app, and its outer try/catch lets nothing reach its caller:
\* whether they succeed or fail, speakAnalysis returns and
\* analyzePhotoWithGemini ends without entering its catch.
Spoken_Rethrown(a) == [photos EXCEPT ![a.user][a.index].geminiAnalysis = "error"]
\* photos after speakAnalysis: nothing it does reaches the catch at line 266
Spoken(a) == photos

SpeakAnalysisDone(a) ==
    /\ a \in analyses /\ a.pc = "speakAnalysis"
    /\ analyses' = analyses \ {a}
    /\ photos' = Spoken(a)
    /\ UNCHANGED <<isStreamingPhotos, nextPhotoTime, sessions, owner,
                   connected, active, tracing, calls, nextRequest, lastFire, hist,
                   attempted>>

\* ---- HTTP routes (lines 566-856) ----------------------------------------
\* The routes read the state and write none of it: each is the response it
\* sends in the current state, as a function of the request.  auth is
\* req.authUserId (NoUser when the request carries none), rid the :requestId
\* parameter.
NoUser == "none"
Response(code, what) == [status |-> code, body |-> what]
NotAuthenticated == Response(401, "error")
NotFound == Response(404, "error")
\* !analysis: the field is not set (or is the empty string, not modelled)
Missing(p) == p.geminiAnalysis = "absent"
Latest_First(u) == photos[u][1]
\* userPhotos[userPhotos.length - 1]
Latest(u) == photos[u][Len(photos[u])]
\* userPhotos.find(p => p.requestId === requestId): the first match, if any
Find(u, rid) ==
    LET hits == {i \in DOMAIN PhotosOf(u) : photos[u][i].requestId = rid}
    IN IF hits = {} THEN {}
       ELSE {photos[u][CHOOSE i \in hits : \A j \in hits : i <= j]}

\* GET /api/latest-photo (567-590)
LatestPhotoRoute(auth) ==
    IF auth = NoUser THEN NotAuthenticated
    ELSE IF PhotosOf(auth) = <<>> THEN NotFound
    ELSE Response(200, [requestId |-> Latest(auth).requestId])

\* GET /api/photo/:requestId (594-620)
PhotoRoute(auth, rid) ==
    IF auth = NoUser THEN NotAuthenticated
    ELSE IF PhotosOf(auth) = <<>> \/ Find(auth, rid) = {} THEN NotFound
    ELSE Response(200, [requestId |-> rid])

\* GET /api/gemini-analysis (623-651)
GeminiAnalysisRoute(auth) ==
    IF auth = NoUser THEN NotAuthenticated
    ELSE IF PhotosOf(auth) = <<>> THEN NotFound
    ELSE IF Missing(Latest(auth)) THEN NotFound
    ELSE Response(200, [analysis |-> Latest(auth).geminiAnalysis])

\* GET /api/photos (653-671): an empty list is a list
PhotosRoute(auth) ==
    IF auth = NoUser THEN NotAuthenticated
    ELSE Response(200, [i \in DOMAIN PhotosOf(auth) |->
                          [requestId |-> photos[auth][i].requestId,
                           hasAnalysis |-> ~Missing(photos[auth][i])]])

\* GET /api/analysis/:requestId (674-715)
AnalysisRoute(auth, rid) ==
    IF auth = NoUser THEN NotAuthenticated
    ELSE IF PhotosOf(auth) = <<>> \/ Find(auth, rid) = {} THEN NotFound
    ELSE LET photo == CHOOSE p \in Find(auth, rid) : TRUE
         IN IF Missing(photo) THEN NotFound
            ELSE Response(200, [analysis |-> photo.geminiAnalysis])

\* POST /api/speak-analysis (718-754): speakAnalysis never rejects, so the
\* route's catch (500) is not reached
SpeakAnalysisRoute(auth) ==
    IF auth = NoUser THEN NotAuthenticated
    ELSE IF PhotosOf(auth) = <<>> THEN NotFound
    ELSE IF Missing(Latest(auth)) THEN NotFound
    ELSE Response(200, [success |-> TRUE])

\* POST /api/nearby-stores (796-856): complete says whether the body has
\* storeName, latitude and longitude; places is the outcome of the Google
\* Places request ("ok", "refused": response.ok is false, "thrown")
NearbyStoresRoute(auth, complete, places) ==
    IF auth = NoUser THEN NotAuthenticated
    ELSE IF ~complete THEN Response(400, "error")
    ELSE IF places # "ok" THEN Response(500, "error")
    ELSE Response(200, [stores |-> TRUE])

\* ---- the clock: one timer period passes --------------------------------
\* A timer's callback runs once in every period, at an instant of its own:
\* TickFire and TickIdle may run at any instant.
AdvanceTime ==
    /\ nextPhotoTime' = [u \in DOMAIN nextPhotoTime |-> Older(nextPhotoTime[u], Past)]
    /\ lastFire' = [u \in DOMAIN lastFire |->
                       [lastFire[u] EXCEPT !.at = Older(@, Oldest),
                                           !.early = FALSE]]
    /\ UNCHANGED <<photos, isStreamingPhotos, sessions, owner, connected,
                   active, tracing, calls, analyses, nextRequest, hist, attempted>>

Next ==
    \/ \E u \in Users : OnSession(u)
    \/ \E h \in Handles : OnStop(h)
    \/ \E h \in Handles : LongPress(h)
    \/ \E h \in Handles : ShortPress(h)
    \/ \E h \in Handles : TickFire(h)
    \/ \E h \in Handles : TickIdle(h)
    \/ \E c \in calls : RequestPhotoOk(c)
    \/ \E c \in calls : RequestPhotoFail(c)
    \/ \E c \in calls : ShutterSoundDone(c)
    \/ \E a \in analyses : GenerateOk(a)
    \/ \E a \in analyses : GenerateFail(a)
    \/ \E a \in analyses : SpeakAnalysisDone(a)
    \/ AdvanceTime

Spec == Init /\ [][Next]_vars
SpecPresses == InitPresses /\ [][Next]_vars
SpecFires == InitFires /\ [][Next]_vars
SpecCaptures == InitCaptures /\ [][Next]_vars
SpecUsers == InitUsers /\ [][Next]_vars

\* The timers keep ticking and the clock keeps going: setInterval runs every
\* timer's callback once in every period, so a tick whose guard stays true
\* fires, and a period that can pass does pass.
Ticking == \A h \in Handles : WF_vars(TickFire(h))
SpecRetries == InitRetries /\ [][Next]_vars /\ Ticking /\ WF_vars(AdvanceTime)

\* ==== properties ==========================================================
\* capture requests in flight: handlers suspended at camera.requestPhoto()
InFlight(u, k) == {c \in calls : c.user = u /\ c.kind = k /\ c.pc = "requestPhoto"}
\* the requests a step issues, and the handlers a step ends
Ids(cs) == {c.id : c \in cs}
Issued == {c \in calls' : c.id \notin Ids(calls)}
Ended == {c \in calls : c.id \notin Ids(calls')}
\* a step in which requestPhoto returns its photo to handler c
Returns(c) == \E d \in calls' : d.id = c.id /\ d.pc = "speak"
\* the fallback written by u's latest fire stands, and it is request c's
StandsFor(c) ==
    /\ MapHas(lastFire, c.user)
    /\ lastFire[c.user].id = c.id
    /\ lastFire[c.user].standing

\* C1 as stated: for every user at most one tick-triggered capture request is
\* in flight at any time.
C1_AtMostOneTickRequestInFlight ==
    \A u \in Users : Cardinality(InFlight(u, "tick")) <= 1

\* C1, amended: a tick issues a capture request while an earlier
\* tick-triggered request of the same user is still in flight only if that
\* request's fallback no longer stands (a session start or stop, or a later
\* success, rewrote nextPhotoTime) or its fallback time, fire time + CoolDown,
\* has passed.
C1_TickOverlapOnlyPastFallback ==
    [][\A c \in Issued : c.kind = "tick" =>
          \A d \in InFlight(c.user, "tick") :
              StandsFor(d) => now > lastFire[c.user].at + CoolDown]_vars

\* C1 witness: in a single session that was never stopped, two tick-triggered
\* requests are in flight at once: the first has hung past its fallback time.
C1_Witness ==
    \E u \in Users :
        /\ Cardinality(InFlight(u, "tick")) = 2
        /\ Created = {1} /\ connected = {1}

\* C2: a tick issues a capture request only if, when it runs, isStreaming is
\* true and the current time is strictly greater than nextPhotoTime (0, the
\* epoch, when the user has no entry).
C2_TickFiresOnlyWhenStreamingAndDue ==
    [][\A c \in Issued : c.kind = "tick" =>
          /\ MapHas(isStreamingPhotos, c.user)
          /\ isStreamingPhotos[c.user] = TRUE
          /\ MapHas(nextPhotoTime, c.user) => now > nextPhotoTime[c.user]]_vars

\* C2 witness: a tick has just fired: its request is in flight and the
\* fallback it wrote is now + CoolDown.
C2_Witness ==
    \E u \in Users : \E c \in InFlight(u, "tick") :
        /\ StandsFor(c)
        /\ lastFire[u].at = now
        /\ nextPhotoTime[u] = now + CoolDown

\* C3 as stated: when a tick-triggered capture call succeeds (requestPhoto
\* returns its photo), nextPhotoTime of its user is the time of that
\* completion from the same step on.
C3_ResetAtCaptureCompletion ==
    [][\A c \in calls :
          (/\ c.kind = "tick" /\ c.pc = "requestPhoto"
           /\ Returns(c))
          => MapHas(nextPhotoTime', c.user) /\ nextPhotoTime'[c.user] = now]_vars

\* C3, amended: the reset to the current time is made when the timer's
\* callback resumes after the "Photo taken" sound that follows a successful
\* capture: in that step nextPhotoTime of the user becomes the current time
\* and the photo is appended; until then the fallback is left as it was.
C3_ResetAfterShutterSound ==
    [][\A c \in calls : c.kind = "tick" =>
          /\ (c.pc = "speak" /\ c.id \notin Ids(calls'))
             => /\ MapHas(nextPhotoTime', c.user)
                /\ nextPhotoTime'[c.user] = now
                /\ Len(photos'[c.user]) = Len(PhotosOf(c.user)) + 1
          /\ (c.pc = "requestPhoto" /\ Returns(c))
             => nextPhotoTime' = nextPhotoTime]_vars

\* C3 witness: u's latest tick-triggered capture has succeeded and its
\* callback has ended: its photo is stored, and nextPhotoTime[u] is the
\* current time while the fallback of that fire would still lie ahead.
C3_Witness ==
    \E u \in DOMAIN lastFire :
        /\ lastFire[u].returned /\ ~lastFire[u].standing
        /\ lastFire[u].id \notin Ids(calls)
        /\ \E i \in DOMAIN PhotosOf(u) : photos[u][i].requestId = lastFire[u].id
        /\ MapHas(nextPhotoTime, u) /\ nextPhotoTime[u] = now
        /\ IsStreamingOf(u)

\* C4 as stated: when a tick-triggered capture call fired at time T fails,
\* nextPhotoTime of its user is T + CoolDown, whatever ran for that user while
\* the call was in flight.
C4_FailureLeavesFireTimePlusCoolDown ==
    [][\A c \in Ended :
          (/\ c.kind = "tick" /\ c.pc = "requestPhoto"
           /\ MapHas(lastFire, c.user) /\ lastFire[c.user].id = c.id)
          => /\ MapHas(nextPhotoTime', c.user)
             /\ nextPhotoTime'[c.user] = lastFire[c.user].at + CoolDown]_vars

\* C4, amended: the failure of a tick-triggered capture call writes nothing
\* to nextPhotoTime; it is T + CoolDown after the failure if nothing else (a
\* session start or stop, a later fire or success for the user) has written
\* it since the fire at T.
C4_FailureWritesNothing ==
    [][\A c \in Ended : (c.kind = "tick" /\ c.pc = "requestPhoto") =>
          /\ nextPhotoTime' = nextPhotoTime
          /\ StandsFor(c)
             => /\ MapHas(nextPhotoTime', c.user)
                /\ nextPhotoTime'[c.user] = lastFire[c.user].at + CoolDown]_vars

\* C4 witness: u's latest tick-triggered call, fired some periods ago, has
\* failed (it is gone and never returned a photo) and nextPhotoTime[u] is
\* still its fire time + CoolDown.
C4_Witness ==
    \E u \in DOMAIN lastFire :
        /\ lastFire[u].standing /\ ~lastFire[u].returned
        /\ lastFire[u].id \notin Ids(calls)
        /\ lastFire[u].at < now
        /\ MapHas(nextPhotoTime, u)
        /\ nextPhotoTime[u] = lastFire[u].at + CoolDown

C6_OnlyAStandingFallbackLiesAhead ==
    \A u \in DOMAIN nextPhotoTime :
        nextPhotoTime[u] > now
        => /\ MapHas(lastFire, u) /\ lastFire[u].standing
           /\ nextPhotoTime[u] = lastFire[u].at + CoolDown

\* C6 witness: in a single session that was never stopped, a tick has just
\* fired a capture before the fallback time of the tick-triggered capture
\* before it.
C6_Witness ==
    \E u \in DOMAIN lastFire :
        /\ lastFire[u].early
        /\ Created = {1} /\ connected = {1}

\* a step in which onSession registers a new session for u
StartsSession(u) ==
    MapHas(sessions', u) /\ (MapHas(sessions, u) => sessions'[u] # sessions[u])
\* a step that changes the streaming flag the timer reads for u
FlipsStreaming(u) == IsStreamingOf(u)' # IsStreamingOf(u)

\* C7 as stated: isStreaming is false at session start, and every later
\* change of it is made by a long button press of that user.
C7_OnlyLongPressChangesStreaming ==
    [][\A u \in Users :
          /\ StartsSession(u) => isStreamingPhotos'[u] = FALSE
          /\ FlipsStreaming(u)
             => \E h \in connected : owner[h] = u /\ LongPress(h)]_vars

\* C7, amended: isStreaming is false at session start; a long button press
\* sets it to the negation of its current value; the only other steps that
\* change it are a session stop and a session start, which set it to false.
C7_LongPressTogglesStartAndStopClear ==
    [][\A u \in Users :
          /\ StartsSession(u) => isStreamingPhotos'[u] = FALSE
          /\ hist'[u] = Append(hist[u], "long")
             => /\ MapHas(isStreamingPhotos', u)
                /\ isStreamingPhotos'[u] = ~IsStreamingOf(u)
          /\ FlipsStreaming(u)
             => \/ \E h \in connected : owner[h] = u /\ LongPress(h)
                \/ /\ isStreamingPhotos'[u] = FALSE
                   /\ \/ OnSession(u)
                      \/ \E h \in connected : owner[h] = u /\ OnStop(h)]_vars

\* C7 witness: one long press after session start: isStreaming is true.
C7_Witness ==
    \E u \in Users :
        /\ hist[u] = <<"long">>
        /\ MapHas(isStreamingPhotos, u) /\ isStreamingPhotos[u] = TRUE

\* C8: a button press that is not a long press can be handled in every state
\* of a connected session, whatever isStreaming and nextPhotoTime are and
\* whatever is in flight; handling it issues exactly one capture request, for
\* that user, and writes neither isStreaming nor nextPhotoTime; when a
\* button-triggered request fails, no request is issued and no photo stored.
C8_ShortPressIssuesExactlyOneRequest ==
    /\ [](\A h \in connected :
              nextRequest <= MaxRequests => ENABLED ShortPress(h))
    /\ [][/\ \A h \in connected :
                ShortPress(h)
                => /\ Issued = {NewCall(h, "button")}
                   /\ Ended = {}
                   /\ UNCHANGED <<isStreamingPhotos, nextPhotoTime>>
          /\ \A c \in Ended :
                (c.kind = "button" /\ c.pc = "requestPhoto")
                => Issued = {} /\ photos' = photos]_vars

\* C8 witness: a button-triggered request is in flight that was issued with
\* streaming on, during the cooldown of a tick-triggered request of the same
\* user that is still in flight.
C8_Witness ==
    \E u \in Users : \E b \in InFlight(u, "button") : \E t \in InFlight(u, "tick") :
        /\ b.id > t.id
        /\ StandsFor(t) /\ lastFire[u].at = now
        /\ nextPhotoTime[u] > now
        /\ IsStreamingOf(u)

\* C9: from a fresh session, long press, long press, short press with no
\* capture fired by a tick in between leaves isStreaming false and exactly one
\* capture attempted.
C9_LongLongShort ==
    \A u \in Users :
        hist[u] = Scenario
        => /\ MapHas(isStreamingPhotos, u) /\ isStreamingPhotos[u] = FALSE
           /\ attempted[u] = 1

\* C9 witness: the scenario has been run to its end.
C9_Witness ==
    \E u \in Users : hist[u] = Scenario /\ attempted[u] = 1

\* C10: a photo is appended with geminiAnalysis absent; a geminiAnalysis that
\* is present (the analysis text or the error text) is never written again,
\* and stored photos are never removed or reordered.
C10_AnalysisWrittenAtMostOnce ==
    [][\A u \in DOMAIN photos' : \A i \in DOMAIN photos'[u] :
          IF i \in DOMAIN PhotosOf(u)
            THEN /\ photos'[u][i].requestId = photos[u][i].requestId
                 /\ photos[u][i].geminiAnalysis # "absent"
                    => photos'[u][i].geminiAnalysis = photos[u][i].geminiAnalysis
                 /\ photos'[u][i].geminiAnalysis \in {"absent", "analysis", "error"}
            ELSE photos'[u][i].geminiAnalysis = "absent"]_vars

\* C10 witness: the analysis text of a photo is stored and the speech step
\* that follows it is under way.
C10_Witness ==
    \E a \in analyses :
        /\ a.pc = "speakAnalysis"
        /\ photos[a.user][a.index].geminiAnalysis = "analysis"

\* the users that have had a session, and the connected sessions of a user
Known == {owner[h] : h \in DOMAIN owner}
ConnectedOf(u) == {h \in connected : owner[h] = u}
\* u's session has been stopped and u has not started another one
Stopped(u) == u \in Known /\ ConnectedOf(u) = {}

\* C11 as stated: after onStop for a user and until the user's next session
\* start, isStreaming of the user is false and the user has no nextPhotoTime
\* entry, also when a capture was in flight at the stop.
C11_StoppedUserHasNoCooldownEntry ==
    \A u \in Users :
        Stopped(u)
        => /\ ~IsStreamingOf(u)
           /\ ~MapHas(nextPhotoTime, u)

StopsSession(u) == \E h \in ConnectedOf(u) : h \notin connected'
HasAllState(u) ==
    MapHas(isStreamingPhotos, u) /\ MapHas(nextPhotoTime, u) /\ MapHas(sessions, u)
HasSomeState(u) ==
    MapHas(isStreamingPhotos, u) \/ MapHas(nextPhotoTime, u) \/ MapHas(sessions, u)

\* C13 as stated: a user has isStreaming, nextPhotoTime and session handle
\* entries if and only if the user has an active session; a user without one
\* has none of them.
C13_StateIffActiveSession ==
    \A u \in Users :
        IF ConnectedOf(u) # {} THEN HasAllState(u) ELSE ~HasSomeState(u)

\* C13, amended: the three entries are created together at session start and
\* all exist for as long as the session handle is registered; a user that
\* never had a session has none; onStop removes the session handle and the
\* nextPhotoTime entry and keeps the isStreaming entry, set to false.
C13_StateCreatedAtStartPartlyKeptAtStop ==
    /\ [](\A u \in Users :
              /\ MapHas(sessions, u) => HasAllState(u)
              /\ u \notin Known => ~HasSomeState(u))
    /\ [][\A u \in Users :
              /\ StartsSession(u) => HasAllState(u)'
              /\ StopsSession(u)
                 => /\ ~MapHas(sessions', u)
                    /\ ~MapHas(nextPhotoTime', u)
                    /\ MapHas(isStreamingPhotos', u)
                    /\ isStreamingPhotos'[u] = FALSE]_vars

\* C13 witness: a stopped user: the session handle and nextPhotoTime entries
\* are gone and the isStreaming entry is still there.
C13_Witness ==
    \E u \in Users :
        /\ Stopped(u)
        /\ ~MapHas(sessions, u) /\ ~MapHas(nextPhotoTime, u)
        /\ MapHas(isStreamingPhotos, u)

\* the periodic timers whose callbacks run for user u
TimersOf(u) == {h \in Timers : owner[h] = u}

\* C14 as stated: at any time at most one periodic timer is ticking for a
\* user, and a timer ticks only while the session that created it is active.
C14_OneTimerForTheSessionsLifetime ==
    \A u \in Users :
        /\ Cardinality(TimersOf(u)) <= 1
        /\ TimersOf(u) \subseteq connected

\* the requestIds of a photo list, in list order
RequestIds(ps) == [i \in DOMAIN ps |-> ps[i].requestId]

\* C15: in every step the photo list of every user before the step is a
\* prefix of the list after it: entries are only added, at the end.
C15_PhotoListAppendOnly ==
    [][\A u \in Users :
          /\ MapHas(photos, u) => MapHas(photos', u)
          /\ IsPrefix(RequestIds(PhotosOf(u)), RequestIds(PhotosOf(u)'))]_vars

\* C15 witness: a user's session was stopped and another one started, and
\* the two photos captured so far are both in the list.
C15_Witness ==
    \E u \in Users :
        /\ Len(PhotosOf(u)) = 2
        /\ Created = {1, 2} /\ 1 \notin connected /\ 2 \in connected

\* C16 as stated: in every reachable state each photo in a user's list was
\* captured no earlier than the photos before it in the list.
C16_PhotoListOrderedByCaptureTime ==
    \A u \in Users : \A i, j \in DOMAIN PhotosOf(u) :
        i < j => photos[u][i].timestamp <= photos[u][j].timestamp

\* the per-user state of the app, with an absent entry told from any value
CaptureState(u) ==
    <<MapHas(isStreamingPhotos, u), IsStreamingOf(u),
      MapHas(nextPhotoTime, u), NextPhotoTimeOf(u),
      IF MapHas(sessions, u) THEN {sessions[u]} ELSE {},
      MapHas(photos, u), PhotosOf(u)>>
\* a step of an operation performed for user u
StepFor(u) ==
    \/ OnSession(u)
    \/ \E h \in ConnectedOf(u) : OnStop(h) \/ LongPress(h) \/ ShortPress(h)
    \/ \E h \in TimersOf(u) : TickFire(h) \/ TickIdle(h)
    \/ \E c \in calls :
          c.user = u /\ (RequestPhotoOk(c) \/ RequestPhotoFail(c) \/ ShutterSoundDone(c))
    \/ \E a \in analyses :
          a.user = u /\ (GenerateOk(a) \/ GenerateFail(a) \/ SpeakAnalysisDone(a))

\* C17: a step of an operation performed for one user leaves isStreaming,
\* nextPhotoTime, the session handle and the photo list of every other user
\* as they were.  (The passing of time is not an operation: it changes no
\* stored value, only the distance of the stored times from the clock.)
C17_UsersAreIndependent ==
    [][\A u \in Users :
          StepFor(u) => \A v \in Users \ {u} : CaptureState(v)' = CaptureState(v)]_vars

\* C17 witness: two users with sessions at once, one streaming with a
\* tick-triggered capture in flight and a photo stored, the other not
\* streaming and without photos.
C17_Witness ==
    \E u, v \in Users :
        /\ u # v /\ MapHas(sessions, u) /\ MapHas(sessions, v)
        /\ IsStreamingOf(u) /\ ~IsStreamingOf(v)
        /\ InFlight(u, "tick") # {}
        /\ Len(PhotosOf(u)) = 1 /\ PhotosOf(v) = <<>>

\* C18: a step in which a capture handler or an analysis run resumes from an
\* external call, failed or not (capture, confirmation sound, analysis,
\* speech), leaves the session handles, the connected sessions and
\* isStreaming as they were; a user's session handle is removed only by onStop.
C18_FailuresDoNotEndSessions ==
    [][/\ (Ended # {} \/ analyses' # analyses)
          => /\ sessions' = sessions
             /\ connected' = connected
             /\ isStreamingPhotos' = isStreamingPhotos
       /\ \A u \in Users :
             (MapHas(sessions, u) /\ ~MapHas(sessions', u)) => StopsSession(u)]_vars

\* C18 witness: in a session that was never stopped, one capture call has
\* failed and the analysis of the other capture has failed; the session
\* handle is registered and streaming is still on.
C18_Witness ==
    \E u \in Users :
        /\ Created = {1} /\ connected = {1}
        /\ MapHas(sessions, u) /\ IsStreamingOf(u)
        /\ calls = {} /\ nextRequest = 3
        /\ Len(PhotosOf(u)) = 1 /\ photos[u][1].geminiAnalysis = "error"

\* the requests tried on the routes
Auths == Users \cup {NoUser}
Rids == 0..MaxRequests
PlacesOutcomes == {"ok", "refused", "thrown"}
\* the responses of the seven routes to one request each
Responses(auth, rid, complete, places) ==
    {LatestPhotoRoute(auth), PhotoRoute(auth, rid), GeminiAnalysisRoute(auth),
     PhotosRoute(auth), AnalysisRoute(auth, rid), SpeakAnalysisRoute(auth),
     NearbyStoresRoute(auth, complete, places)}
HasPhoto(u, rid) == \E i \in DOMAIN PhotosOf(u) : photos[u][i].requestId = rid
HasAnalysis(u, rid) ==
    \E i \in DOMAIN PhotosOf(u) :
        /\ photos[u][i].requestId = rid
        /\ photos[u][i].geminiAnalysis \in {"analysis", "error"}

C20_TickAdvancesBeforeItCalls ==
    /\ [][\A c \in Issued : c.kind = "tick" =>
             /\ c.pc = "requestPhoto"
             /\ MapHas(nextPhotoTime', c.user)
             /\ nextPhotoTime'[c.user] = now + CoolDown]_vars
    /\ [](\A u \in Users : \A c \in InFlight(u, "tick") :
             StandsFor(c) =>
                /\ MapHas(nextPhotoTime, u)
                /\ nextPhotoTime[u] = lastFire[u].at + CoolDown)

\* C20 witness: one period after a tick fired, its request is still in flight
\* with streaming on, and nextPhotoTime is the fire time + CoolDown, ahead of
\* the current time, which is what the tick of this period reads.
C20_Witness ==
    \E u \in Users : \E c \in InFlight(u, "tick") :
        /\ StandsFor(c)
        /\ IsStreamingOf(u)
        /\ lastFire[u].at = now - Period
        /\ nextPhotoTime[u] = now - Period + CoolDown
        /\ ~TickGuard(u)

\* C21: the periodic loop sets nextPhotoTime forward: the value a firing tick
\* writes is strictly later than the value nextPhotoTime held when the tick
\* read it (the epoch when there was none), and for as long as that value
\* stands, through a failure or a stall of the capture call, no tick of the
\* user passes its guard before the fire time + CoolDown has gone by.
C21_FireSetsNextPhotoTimeForward ==
    /\ [][\A c \in Issued : c.kind = "tick" =>
             /\ MapHas(nextPhotoTime', c.user)
             /\ nextPhotoTime'[c.user] > NextPhotoTimeOf(c.user)]_vars
    /\ [](\A u \in DOMAIN lastFire :
             (lastFire[u].standing /\ now <= lastFire[u].at + CoolDown)
             => ~TickGuard(u))

\* C21 witness: a tick-triggered request stalled past its fallback time and a
\* second tick has just fired: both are in flight, and the second fire has
\* moved nextPhotoTime from a time in the past to now + CoolDown.
C21_Witness ==
    \E u \in Users : \E c \in InFlight(u, "tick") :
        /\ Cardinality(InFlight(u, "tick")) = 2
        /\ StandsFor(c)
        /\ lastFire[u].at = now
        /\ nextPhotoTime[u] = now + CoolDown
        /\ ~TickGuard(u)

\* C22: a session start for a user, whatever state the user is in, leaves the
\* user with isStreaming false, nextPhotoTime equal to the time of the call
\* and the new session's handle registered.  It changes nothing else: the
\* photo lists, the capture calls and analyses in flight and the state of
\* every other user stay as they were, and the only timer it adds is the new
\* session's own.
C22_SessionStartLeavesFreshState ==
    [][\A u \in Users : StartsSession(u) =>
          /\ MapHas(isStreamingPhotos', u) /\ isStreamingPhotos'[u] = FALSE
          /\ MapHas(nextPhotoTime', u) /\ nextPhotoTime'[u] = now
          /\ sessions'[u] \notin Created
          /\ Timers' = Timers \cup {sessions'[u]}
          /\ photos' = photos /\ calls' = calls /\ analyses' = analyses
          /\ nextRequest' = nextRequest
          /\ \A v \in Users \ {u} : CaptureState(v)' = CaptureState(v)]_vars

\* C22 witness: a second session has just started for a user whose first
\* session is still connected and had streaming on with a tick-triggered
\* capture in flight: isStreaming is false and nextPhotoTime is the time of
\* the start, while the capture of the first session is still in flight.
C22_Witness ==
    \E u \in Users :
        /\ connected = {1, 2} /\ owner[1] = u /\ owner[2] = u
        /\ sessions[u] = 2
        /\ isStreamingPhotos[u] = FALSE
        /\ nextPhotoTime[u] = now
        /\ \E c \in InFlight(u, "tick") : c.session = 1
        /\ MapHas(lastFire, u) /\ ~lastFire[u].standing

\* the analysis runs a step dispatches
Dispatches == {a \in analyses' : a.pc = "generateContent"} \ analyses

\* C23: when the handler of a capture call that returned its photo runs on
\* (after the shutter sound), it appends exactly one photo, with that call's
\* requestId and no analysis yet, to its user's list and dispatches exactly
\* one analysis, for that photo; when a capture call fails, nothing is
\* appended and nothing dispatched; no other step appends a photo or
\* dispatches an analysis.  So a requestId is stored at most once, never
\* while its handler is still suspended, and a stored photo has no analysis
\* yet exactly while the one analysis dispatched for it is at generateContent.
C23_SuccessStoresOnePhotoAndDispatchesOneAnalysis ==
    /\ [][/\ \A c \in Ended :
               IF c.pc = "speak"
                 THEN /\ MapHas(photos', c.user)
                      /\ photos'[c.user] =
                            Append(PhotosOf(c.user),
                                   [requestId |-> c.id, timestamp |-> c.timestamp,
                                    geminiAnalysis |-> "absent"])
                      /\ \A v \in Users \ {c.user} : PhotosOf(v)' = PhotosOf(v)
                      /\ Dispatches = {[user |-> c.user, index |-> Len(photos'[c.user]),
                                        pc |-> "generateContent"]}
                 ELSE photos' = photos /\ Dispatches = {}
          /\ Ended = {} =>
               /\ \A u \in Users : Len(PhotosOf(u))' = Len(PhotosOf(u))
               /\ Dispatches = {}]_vars
    /\ [](\A u \in Users : \A i \in DOMAIN PhotosOf(u) :
             /\ photos[u][i].requestId \notin Ids(calls)
             /\ \A v \in Users : \A j \in DOMAIN PhotosOf(v) :
                   photos[v][j].requestId = photos[u][i].requestId => (v = u /\ j = i)
             /\ photos[u][i].geminiAnalysis = "absent"
                <=> [user |-> u, index |-> i, pc |-> "generateContent"] \in analyses)

\* C23 witness: one capture call has succeeded and one has failed: the only
\* photo stored is the first call's, its analysis is dispatched and still at
\* generateContent, and the failed second call has left nothing behind.
C23_Witness ==
    \E u \in Users :
        /\ nextRequest = 3 /\ calls = {}
        /\ Len(PhotosOf(u)) = 1 /\ photos[u][1].requestId = 1
        /\ analyses = {[user |-> u, index |-> 1, pc |-> "generateContent"]}

\* the analysis runs that hold photo i of user u
RunsFor(u, i) == {a \in analyses : a.user = u /\ a.index = i}

\* C24: a failure of the analysis call is kept inside analyzePhotoWithGemini.
\* The step in which it fails leaves the photo in its place in the user's
\* list with the error text as its analysis, changes no other photo, ends the
\* run without a speech step, and touches no session, capture call or
\* capture state.  From then on the photo's analysis reads as present, and no
\* run ever speaks for a photo that holds the error text.
C24_AnalysisFailureIsStoredNotPropagated ==
    /\ [][\A a \in analyses : GenerateFail(a) =>
             /\ Len(photos'[a.user]) = Len(photos[a.user])
             /\ \A i \in DOMAIN photos[a.user] :
                   /\ photos'[a.user][i].requestId = photos[a.user][i].requestId
                   /\ i # a.index => photos'[a.user][i] = photos[a.user][i]
             /\ photos'[a.user][a.index].geminiAnalysis = "error"
             /\ ~Missing(photos'[a.user][a.index])
             /\ \A v \in Users \ {a.user} : PhotosOf(v)' = PhotosOf(v)
             /\ analyses' = analyses \ {a}
             /\ calls' = calls /\ sessions' = sessions /\ connected' = connected
             /\ isStreamingPhotos' = isStreamingPhotos
             /\ nextPhotoTime' = nextPhotoTime]_vars
    /\ [](\A u \in Users : \A i \in DOMAIN PhotosOf(u) :
             photos[u][i].geminiAnalysis = "error" =>
                /\ RunsFor(u, i) = {}
                /\ AnalysisRoute(u, photos[u][i].requestId) =
                      Response(200, [analysis |-> "error"]))

\* C24 witness: the analysis of a user's only photo has failed while the
\* user's session is connected: the photo is in the list with the error text,
\* which the analysis route returns, no run is left for it, and the session
\* handle is still registered.
C24_Witness ==
    \E u \in Users :
        /\ Len(PhotosOf(u)) = 1
        /\ photos[u][1].geminiAnalysis = "error"
        /\ analyses = {}
        /\ GeminiAnalysisRoute(u) = Response(200, [analysis |-> "error"])
        /\ MapHas(sessions, u) /\ sessions[u] \in connected

\* C25: retry is by the next tick and by nothing else.  Once a tick-triggered
\* capture of the user has failed, with the timers ticking and the clock going,
\* a later tick-triggered capture is issued for that user unless isStreaming
\* goes false (a long press, a session stop or a session start) or the run's
\* camera requests are used up; and no step in which a capture call fails
\* issues a request: every request is issued by a tick that found its guard
\* true or by a button press on a connected session.
C25_FailedTickCaptureIsRetriedByALaterTick ==
    /\ \A u \in OneUser :
          (Failed(u) /\ IsStreamingOf(u))
          ~> \/ \E c \in InFlight(u, "tick") : StandsFor(c)
             \/ ~IsStreamingOf(u)
             \/ nextRequest > MaxRequests
    /\ [][/\ (\E c \in Ended : c.pc = "requestPhoto") => Issued = {}
          /\ \A c \in Issued :
                /\ Cardinality(Issued) = 1
                /\ \/ c.kind = "tick" /\ TickGuard(c.user)
                   \/ c.kind = "button" /\ c.session \in connected]_vars

\* C25 witness: a tick-triggered capture failed, the session stayed connected
\* with streaming on, and a tick has now fired again for the user: the second
\* request is in flight, issued past the fallback time the first had left.
C25_Witness ==
    \E u \in Users : \E c \in InFlight(u, "tick") :
        /\ StandsFor(c)
        /\ lastFire[u].retry
        /\ lastFire[u].at = now
        /\ IsStreamingOf(u)
        /\ PhotosOf(u) = <<>>

\* C26: captures of one user do not exclude each other.  With a
\* tick-triggered request of the user in flight and the cooldown it wrote
\* still running, a short press on a connected session of the user can be
\* handled; with a button-triggered request in flight, a tick whose guard is
\* true can fire; and a step that issues a request takes no request of the
\* user out of flight, so both are in flight after it.
C26_CapturesOfOneUserOverlap ==
    /\ [](nextRequest <= MaxRequests =>
            /\ \A h \in connected :
                  (InFlight(owner[h], "tick") # {} /\ now <= NextPhotoTimeOf(owner[h]))
                  => ENABLED ShortPress(h)
            /\ \A h \in Timers :
                  (InFlight(owner[h], "button") # {} /\ TickGuard(owner[h]))
                  => ENABLED TickFire(h))
    /\ [][\A c \in Issued : \A k \in {"tick", "button"} :
             InFlight(c.user, k) \subseteq InFlight(c.user, k)']_vars

\* C26 witness: in a single session, one period after a tick fired, its
\* request and a later button-triggered request are both in flight, inside
\* the cooldown window the fire opened.
C26_Witness ==
    \E u \in Users : \E t \in InFlight(u, "tick") : \E b \in InFlight(u, "button") :
        /\ Created = {1} /\ connected = {1}
        /\ t.id < b.id
        /\ StandsFor(t) /\ lastFire[u].at = now - Period
        /\ now < nextPhotoTime[u]

\* C27: a long button press changes only isStreaming, and only its user's
\* entry, which it negates: it issues no capture request, ends none, and
\* leaves nextPhotoTime, the session handles, the photo lists and the
\* analyses in flight as they were.
C27_LongPressChangesOnlyStreaming ==
    [][\A h \in connected : LongPress(h) =>
          /\ Issued = {} /\ calls' = calls /\ nextRequest' = nextRequest
          /\ nextPhotoTime' = nextPhotoTime
          /\ sessions' = sessions /\ connected' = connected
          /\ photos' = photos /\ analyses' = analyses
          /\ IsStreamingOf(owner[h])' = ~IsStreamingOf(owner[h])
          /\ \A v \in Users \ {owner[h]} : CaptureState(v)' = CaptureState(v)]_vars

\* C27 witness: in a single, never-stopped session a long press has turned
\* streaming off while a tick-triggered request is in flight: the request is
\* still in flight and nextPhotoTime is still the fallback its fire wrote.
C27_Witness ==
    \E u \in Users : \E c \in InFlight(u, "tick") :
        /\ Created = {1} /\ connected = {1}
        /\ MapHas(isStreamingPhotos, u) /\ isStreamingPhotos[u] = FALSE
        /\ StandsFor(c)
        /\ nextPhotoTime[u] = lastFire[u].at + CoolDown
        /\ now < nextPhotoTime[u]

\* the callback of timer h, whichever way its guard goes
Tick(h) == TickFire(h) \/ TickIdle(h)

\* C28: a tick whose guard is false (isStreaming not true, or the current
\* time not past nextPhotoTime) is a no-op: in a state in which the guard of
\* a timer's user is false, no run of that timer's callback changes anything,
\* neither isStreaming, nextPhotoTime, the session handles or the photo lists
\* nor the calls in flight.
C28_TickWithFalseGuardIsNoOp ==
    \A h \in Timers : ~TickGuard(owner[h]) => ~ENABLED <<Tick(h)>>_vars

\* C28 witness: streaming is on and the current time equals nextPhotoTime (a
\* long press in the instant of the session start): the guard is false by its
\* strict comparison alone, and the timer's callback does nothing.
C28_Witness ==
    \E u \in Users :
        /\ TimersOf(u) # {}
        /\ IsStreamingOf(u)
        /\ nextPhotoTime[u] = now
        /\ ~TickGuard(u)
        /\ calls = {} /\ nextRequest = 1

\* C29 as stated: every capture request, tick-triggered or button-triggered,
\* is issued on the session handle that is registered as its user's session
\* when it is issued, never on the handle of a session that has been stopped
\* or replaced by a later session start of the user.
C29_CapturesUseTheRegisteredSession ==
    [][\A c \in Issued :
          /\ MapHas(sessions, c.user)
          /\ c.session = sessions[c.user]
          /\ c.session \in connected]_vars

\* C30: the analysis text is on the photo before speech is attempted, and
\* speech never touches it.  While a run is at the speech step, for however
\* long, its photo holds the analysis text and the analysis route returns it;
\* the step that ends the speech, whether it succeeded or failed, changes no
\* photo; and a photo that holds the analysis text holds it in every later
\* state, so it is never replaced by the error text.
C30_SpeechNeverAffectsStoredAnalysis ==
    /\ [](\A a \in analyses : a.pc = "speakAnalysis" =>
             /\ photos[a.user][a.index].geminiAnalysis = "analysis"
             /\ AnalysisRoute(a.user, photos[a.user][a.index].requestId) =
                   Response(200, [analysis |-> "analysis"]))
    /\ [][/\ \A a \in analyses :
                (a.pc = "speakAnalysis" /\ a \notin analyses') => photos' = photos
          /\ \A u \in Users : \A i \in DOMAIN PhotosOf(u) :
                photos[u][i].geminiAnalysis = "analysis"
                => photos'[u][i].geminiAnalysis = "analysis"]_vars

\* C30 witness: the analysis of a user's latest photo is stored and its
\* speech is still under way after the session that was to play it has been
\* stopped: the analysis is returned by the route for the latest photo.
C30_Witness ==
    \E u \in Users : \E a \in analyses :
        /\ a.user = u /\ a.pc = "speakAnalysis" /\ a.index = Len(PhotosOf(u))
        /\ GeminiAnalysisRoute(u) = Response(200, [analysis |-> "analysis"])
        /\ Stopped(u)
        /\ ~MapHas(nextPhotoTime, u)
====
